---- MODULE Spec2Model ----
(***************************************************************************)
(* Model of the audio output engines of ieaoo: the polling backend         *)
(* (src/audio/alsa.rs), the event-driven backend (src/audio/wasapi.rs)     *)
(* and the capability-gating facade Audio (src/audio/mod.rs).              *)
(*                                                                         *)
(* One engine instance is modelled.  The operating system's sound stack    *)
(* is the environment: every answer it gives (an enumeration, the sizes of *)
(* an opened stream, the result of a query, a wait or a write) is an input *)
(* of the action that asks for it, drawn from a small set.                 *)
(***************************************************************************)
EXTENDS Integers, Sequences, FiniteSets, TLC

VARIABLES
    backend,              \* "alsa" | "wasapi": which driver the engine is
    endpoints,            \* what the OS enumerates: a sequence of [id, name]
    default_device_id,    \* the id of the OS default endpoint ("" when none)
    phase,                \* "start" | "ready" | "failed" (construction)
    device_names,         \* ALSADriver.device_names / WASAPIDriver.device_names
    device_ids,           \* WASAPIDriver.device_ids
    prev,                 \* ALSADriver.prev / WASAPIDriver.prev
    current_device_name,  \* WASAPIDriver.current_device_name
    blocking,             \* WASAPIDriver.blocking
    cursor,               \* the caller's position in the signal it plays
    open_streams,         \* number of hardware streams currently open
    last                  \* observation of the last call (history variable)

vars == <<backend, endpoints, default_device_id, phase, device_names, device_ids,
          prev, current_device_name, blocking, cursor, open_streams, last>>

-----------------------------------------------------------------------------
(* Bounds of the model.                                                    *)

\* The caller stops pushing once the pending queue holds this many frames.
MaxQueue == 3

\* The availability loop of ALSADriverPrev::write is followed for at most
\* this many iterations.
MaxAvailIters == 2

\* A scripted device refuses at most this many write attempts in a row.
MaxFails == 5

-----------------------------------------------------------------------------
(* Arithmetic helpers.                                                     *)

Min(a, b) == IF a <= b THEN a ELSE b

Max(a, b) == IF a >= b THEN a ELSE b

\* Amplitudes are rationals n / AmpDen; the caller's f64 values.
AmpDen == 4

\* f64 -> i16 of Rust's `as`: truncation toward zero, saturating.
TruncDiv(n, d) == IF n >= 0 THEN n \div d ELSE -((-n) \div d)

I16_MAX == 32767

I16_MIN == -32768

AsI16(n, d) == Max(I16_MIN, Min(I16_MAX, TruncDiv(n, d)))

\* (sample * 32767.0) as i16
ToI16(a) == AsI16(a * 32767, AmpDen)

\* The signal the caller plays, frame after frame and over again: one
\* amplitude per channel (two channels).
CallerSignal == << <<AmpDen, -1>>, <<1, AmpDen - 1>> >>

NextCursor(c) == (c % Len(CallerSignal)) + 1

-----------------------------------------------------------------------------
(* The environment's answers.                                              *)

\* Enumerations the OS can report, each with the id of the default
\* endpoint.  Identifiers are distinct; friendly names need not be.
EndpointSystems ==
    { [list |-> <<>>, default |-> ""],
      [list |-> << [id |-> "id1", name |-> "A"], [id |-> "id2", name |-> "B"],
                   [id |-> "id3", name |-> "A"] >>, default |-> "id2"] }

\* ALSA's name hints: the hint name is the PCM identifier itself.
HintLists == { <<>>, <<"A", "B">> }

\* Period sizes (in frames) snd_pcm_get_params can report.
PeriodSizes == {1, 2}

\* Wave formats a WASAPI endpoint can negotiate: mode is
\* SubFormat.data1 (1 = PCM, 3 = IEEE float), precision is wBitsPerSample.
Float32 == [channels |-> 2, frequency |-> 48000, mode |-> 3, precision |-> 32]

Pcm24 == [channels |-> 2, frequency |-> 44100, mode |-> 1, precision |-> 24]

\* The streams a WASAPI endpoint can open: the buffer size (in frames)
\* IAudioClient::GetBufferSize reports and the wave format negotiated.
WasapiStreams ==
    { [ok |-> TRUE, buffer_size |-> 1, format |-> Float32],
      [ok |-> TRUE, buffer_size |-> 2, format |-> Float32],
      [ok |-> TRUE, buffer_size |-> 2, format |-> Pcm24] }

\* Argument values the caller tries.
DeviceArgs == {"A", "B", "C"}

LatencyArgs == {20, 40, 30}

FrequencyArgs == {44100, 48000, 22050}

ChannelArgs == {1, 2}

-----------------------------------------------------------------------------
(* Observation of a call.                                                  *)

NoObs ==
    [ op |-> "none", arg |-> 0, held |-> 0, result |-> "Ok",
      invoked |-> FALSE, threshold |-> 0, offered |-> 0, writes |-> 0,
      queries |-> 0, waits |-> 0, attempts |-> 0, submitted |-> 0,
      padding |-> 0, requested |-> 0, popped |-> 0, script |-> <<>>,
      signal |-> "none", opened |-> 0, closed |-> 0,
      unbounded_waits |-> 0, recover_failed |-> 0, order |-> <<>>,
      leaked |-> 0, drop |-> {}, waits_with_room |-> 0,
      transport |-> <<>>, resent |-> 0 ]

Obs(op, arg, held, result) ==
    [NoObs EXCEPT !.op = op, !.arg = arg, !.held = held, !.result = result,
                  !.invoked = TRUE]

NoPrev == [buffer |-> <<>>]

Init ==
    /\ backend \in {"alsa", "wasapi"}
    /\ \/ /\ backend = "alsa"
          /\ endpoints \in HintLists
          /\ default_device_id = ""
       \/ /\ backend = "wasapi"
          /\ \E sys \in EndpointSystems :
               /\ endpoints = sys.list
               /\ default_device_id = sys.default
    /\ phase = "start"
    /\ device_names = <<>>
    /\ device_ids = <<>>
    /\ prev = NoPrev
    /\ current_device_name = ""
    /\ blocking = TRUE
    /\ cursor = 1
    /\ open_streams = 0
    /\ last = NoObs

-----------------------------------------------------------------------------
(* Polling backend: ALSADriverPrev and ALSADriver (src/audio/alsa.rs).     *)

\* Answers of opening a PCM: a failure, or the sizes snd_pcm_get_params
\* reports for the stream that was opened.
AlsaOpenAnswers ==
    { [ok |-> FALSE, buffer_size |-> 0, period_size |-> 0] } \cup
    { [ok |-> TRUE, buffer_size |-> 8 * p, period_size |-> p] : p \in PeriodSizes }

\* A stream opened with the samples of the engine's queue carried over.
ALSADriverPrev_carry(name, latency, frequency, blocking_, o) ==
    [ blocking    |-> blocking_,
      buffer      |-> prev.buffer,
      buffer_size |-> o.buffer_size,
      frequency   |-> frequency,
      latency     |-> latency,
      name        |-> name,
      pcm         |-> [nonblock |-> ~blocking_, taken |-> 0],
      period_size |-> o.period_size ]

\* ALSADriverPrev::new, the Ok(..) value.  pcm is the device's side of the
\* stream: the mode it was opened in, and how many samples at the head of
\* the engine's buffer it has already taken (history; none of a new stream).
ALSADriverPrev_new(name, latency, frequency, blocking_, o) ==
    [ blocking    |-> blocking_,
      buffer      |-> <<>>,
      buffer_size |-> o.buffer_size,
      frequency   |-> frequency,
      latency     |-> latency,
      name        |-> name,
      pcm         |-> [nonblock |-> ~blocking_, taken |-> 0],
      period_size |-> o.period_size ]

\* One iteration of the availability loop as the device answers it:
\* avail_update (ok, avail), then wait (if it is called), then recover (if
\* one of them failed).
AvailVals == {1, 2 * MaxQueue}

AvailSteps ==
    { [ok |-> FALSE, avail |-> 0, wait |-> "Ok", recover |-> r] : r \in {"Ok", "Err"} }
    \cup { [ok |-> TRUE, avail |-> a, wait |-> "Ok", recover |-> "Ok"] : a \in AvailVals }
    \cup { [ok |-> TRUE, avail |-> a, wait |-> "Err", recover |-> r] :
             a \in AvailVals, r \in {"Ok", "Err"} }

\* The loop of ALSADriverPrev::write that waits for space.  len is
\* buffer.len(); q and w count the queries and the waits made.
RECURSIVE AvailLoop(_, _, _, _, _)
AvailLoop(script, i, len, q, w) ==
    IF i > Len(script)
    THEN [outcome |-> "pending", used |-> i - 1, queries |-> q, waits |-> w]
    ELSE LET s == script[i] IN
         IF ~s.ok
         THEN IF s.recover = "Err"
              THEN [outcome |-> "err", used |-> i, queries |-> q + 1, waits |-> w]
              ELSE AvailLoop(script, i + 1, len, q + 1, w)
         ELSE LET waited == s.avail < len
                  w2 == IF waited THEN w + 1 ELSE w
              IN IF waited /\ s.wait = "Err" /\ s.recover = "Err"
                 THEN [outcome |-> "err", used |-> i, queries |-> q + 1, waits |-> w2]
                 ELSE IF s.avail >= len
                      THEN [outcome |-> "break", used |-> i, queries |-> q + 1,
                            waits |-> w2]
                      ELSE AvailLoop(script, i + 1, len, q + 1, w2)


\* The device's answers to the availability loop: every run of at most
\* MaxAvailIters iterations.
AllAvailScripts == UNION { [1..n -> AvailSteps] : n \in 1..MaxAvailIters }

\* Those that end the loop, with their last answer, for a buffer of len
\* samples (an answer the code never asks for is left at "Ok").
AvailScripts(len) ==
    { s \in AllAvailScripts :
        LET r == AvailLoop(s, 1, len, 0, 0)
        IN /\ r.outcome # "pending"
           /\ r.used = Len(s)
           /\ \A i \in 1..Len(s) : (s[i].ok /\ s[i].avail >= len) => s[i].wait = "Ok" }

\* One delivery attempt as the device answers it: io_i16 (io), writei
\* (write, frames accepted), recover (if writei failed).
Accept(n) == [io |-> "Ok", write |-> "Ok", frames |-> n, recover |-> "Ok"]

Refuse(r) == [io |-> "Ok", write |-> "Err", frames |-> 0, recover |-> r]

IoErr == [io |-> "Err", write |-> "Ok", frames |-> 0, recover |-> "Ok"]

\* A device that refuses the first n attempts and accepts up to c frames
\* per attempt from then on.
FailThen(n, r, c) == [i \in 1..(n + 1) |-> IF i <= n THEN Refuse(r) ELSE Accept(c)]

\* A device that accepts "everything offered" accepts MaxQueue frames.
Chunks == {1, MaxQueue}

DeliveryScripts ==
    { FailThen(n, "Ok", c) : n \in 0..MaxFails, c \in Chunks }
    \cup { FailThen(1, "Err", MaxQueue), <<IoErr>>, <<Accept(1), IoErr>> }

\* The answer to attempt k: a device keeps its last behaviour.
Entry(script, k) == script[Min(k, Len(script))]

\* let mut i = 4
FirstI == 4

\* while output.len() > 0 && i >= 0
LoopGuard(remaining, i) == remaining > 0 /\ i >= 0

\* The delivery loop of ALSADriverPrev::write.  len is buffer.len(), off
\* the number of samples of the buffer that output no longer covers, k the
\* number of the next attempt.
RECURSIVE DeliveryLoop(_, _, _, _, _)
DeliveryLoop(script, len, off, i, k) ==
    IF ~LoopGuard(len - off, i)
    THEN [outcome |-> "done", off |-> off, i |-> i, attempts |-> k - 1]
    ELSE LET s == Entry(script, k) IN
         IF s.io = "Err"
         THEN [outcome |-> "err", off |-> off, i |-> i - 1, attempts |-> k - 1]
         ELSE IF s.write = "Ok"
              THEN LET written == Min(s.frames, (len - off) \div 2)
                   IN IF written * 2 <= len - off
                      THEN DeliveryLoop(script, len, off + written * 2, i - 1, k + 1)
                      ELSE DeliveryLoop(script, len, off, i - 1, k + 1)
              ELSE DeliveryLoop(script, len, off, i - 1, k + 1)

\* A compaction that only truncates: it keeps the head of the buffer.
CompactKeepHead(buffer, off, i) == SubSeq(buffer, 1, Len(buffer) - off)

\* A compaction that trims 4 samples, not 2, of a buffer nothing was
\* delivered from.
CompactTrimFour(buffer, off, i) ==
    LET len == Len(buffer) IN
    IF i < 0
    THEN IF len - off = len
         THEN SubSeq(buffer, 5, len)
         ELSE SubSeq(buffer, off + 1, len)
    ELSE SubSeq(buffer, 1, len - off)

\* A compaction that leaves whole a buffer nothing was delivered from.
CompactNoTrim(buffer, off, i) ==
    LET len == Len(buffer) IN
    IF i < 0
    THEN IF len - off = len
         THEN buffer
         ELSE SubSeq(buffer, off + 1, len)
    ELSE SubSeq(buffer, 1, len - off)

\* The compaction that ends ALSADriverPrev::write.
Compact(buffer, off, i) ==
    LET len == Len(buffer) IN
    IF i < 0
    THEN IF len - off = len
         THEN SubSeq(buffer, 3, len)
         ELSE SubSeq(buffer, off + 1, len)
    ELSE SubSeq(buffer, 1, len - off)

\* The calls of self.pcm.recover that failed among the first `attempts`
\* attempts of the delivery loop.
RecoverFailed(script, attempts) ==
    Cardinality({ k \in 1..attempts :
                    /\ Entry(script, k).write = "Err"
                    /\ Entry(script, k).recover = "Err" })

\* if available < self.buffer.len() as Frames { wait }: `available` counts
\* frames, buffer.len() counts samples (two per frame).  The waits made, in
\* the first `used` iterations, while the device had room for every queued
\* frame.
WaitsWithRoom(script, used, len) ==
    Cardinality({ k \in 1..used :
                    /\ script[k].ok
                    /\ script[k].avail < len
                    /\ script[k].avail >= len \div 2 })

\* The two loops of ALSADriverPrev::write on a buffer of len samples with
\* the device's answers: how write() leaves them.  compact says whether the
\* compaction is reached (the function has not returned an error).
WriteLoops(len, avail_script, delivery_script) ==
    LET a == AvailLoop(avail_script, 1, len, 0, 0) IN
    IF a.outcome = "err"
    THEN [ result |-> "ALSAError", compact |-> FALSE, off |-> 0, i |-> FirstI,
           queries |-> a.queries, waits |-> a.waits, attempts |-> 0,
           recover_failed |-> 1, script |-> delivery_script,
           waits_with_room |-> WaitsWithRoom(avail_script, a.used, len) ]
    ELSE LET d == DeliveryLoop(delivery_script, len, 0, FirstI, 1) IN
         [ result |-> IF d.outcome = "err" THEN "ALSAError" ELSE "Ok",
           compact |-> d.outcome # "err", off |-> d.off, i |-> d.i,
           queries |-> a.queries, waits |-> a.waits, attempts |-> d.attempts,
           recover_failed |-> RecoverFailed(delivery_script, d.attempts),
           script |-> delivery_script,
           waits_with_room |-> WaitsWithRoom(avail_script, a.used, len) ]

\* The device's answers to one write(): the delivery is only asked for when
\* the availability loop is left by its break.
WriteInputs(len) ==
    LET scripts == AvailScripts(len)
        leaves  == { a \in scripts : AvailLoop(a, 1, len, 0, 0).outcome = "break" }
    IN (leaves \X DeliveryScripts) \cup ((scripts \ leaves) \X {<<>>})

\* Every way write() can run on a buffer of len samples, for each len the
\* bound on the queue allows.
WriteRuns ==
    [ len \in 1..(2 * MaxQueue) |->
        { WriteLoops(len, in[1], in[2]) : in \in WriteInputs(len) } ]

\* ALSADriverPrev::write on `buffer`, run as `w`: the buffer it leaves.
ALSADriverPrev_write(buffer, w) ==
    IF w.compact THEN Compact(buffer, w.off, w.i) ELSE buffer

\* The samples written by writei a second time: output = self.buffer
\* .as_slice() starts at the head of the buffer, and the device has already
\* taken `taken` samples from there; this run hands it the first w.off.
Resent(taken, w) == Min(taken, w.off)

\* The samples at the head of the buffer `after` that the device has taken,
\* when write() run as w turned the buffer `before` into it.
Taken(taken, w, before, after) ==
    Max(0, Max(taken, w.off) - (Len(before) - Len(after)))

\* The threshold test with > in place of >=: the delivery would start one
\* frame late.
AlsaPastThreshold(len, period_size) == len > period_size * 2

\* if self.prev.buffer.len() >= self.prev.period_size as usize * 2
AlsaAtThreshold(len, period_size) == len >= period_size * 2

SeqToSet(s) == { s[i] : i \in DOMAIN s }

\* ALSADriver::new
ALSADriver_new ==
    /\ backend = "alsa"
    /\ phase = "start"
    /\ \/ \* HintIter::new fails
          /\ phase' = "failed"
          /\ last' = Obs("new", "HintIter", 0, "ALSAError")
          /\ UNCHANGED <<device_names, prev, open_streams>>
       \/ \* no hint
          /\ Len(endpoints) = 0
          /\ phase' = "failed"
          /\ last' = Obs("new", "device_names", 0, "NoDevice")
          /\ UNCHANGED <<device_names, prev, open_streams>>
       \/ /\ Len(endpoints) > 0
          /\ \E o \in AlsaOpenAnswers :
               IF o.ok
               THEN /\ phase' = "ready"
                    /\ device_names' = endpoints
                    /\ prev' = ALSADriverPrev_new(endpoints[1], 20, 44100, FALSE, o)
                    /\ open_streams' = 1
                    /\ last' = [Obs("new", "", 0, "Ok") EXCEPT !.opened = 1,
                                                                !.order = <<"open">>]
               ELSE /\ phase' = "failed"
                    /\ last' = Obs("new", "ALSADriverPrev::new", 0, "ALSAError")
                    /\ UNCHANGED <<device_names, prev, open_streams>>
    /\ UNCHANGED <<backend, endpoints, default_device_id, device_ids,
                   current_device_name, blocking, cursor>>

\* ALSADriver::output
ALSADriver_output ==
    /\ backend = "alsa"
    /\ phase = "ready"
    /\ Len(prev.buffer) < 2 * MaxQueue
    /\ cursor' = NextCursor(cursor)
    /\ LET frame == CallerSignal[cursor]
           buf == prev.buffer \o <<ToI16(frame[1]), ToI16(frame[2])>>
           obs == [Obs("output", frame, 0, "Ok") EXCEPT
                     !.threshold = prev.period_size, !.offered = Len(buf) \div 2]
       IN IF AlsaAtThreshold(Len(buf), prev.period_size)
          THEN \E w \in WriteRuns[Len(buf)] :
                 /\ prev' = [prev EXCEPT
                               !.buffer = ALSADriverPrev_write(buf, w),
                               !.pcm.taken = Taken(@, w, buf, ALSADriverPrev_write(buf, w))]
                 /\ last' = [obs EXCEPT !.result = w.result, !.writes = 1,
                               !.queries = w.queries, !.waits = w.waits,
                               !.attempts = w.attempts,
                               !.unbounded_waits = w.waits,
                               !.recover_failed = w.recover_failed,
                               !.waits_with_room = w.waits_with_room,
                               !.resent = Resent(prev.pcm.taken, w),
                               !.submitted = w.off \div 2, !.script = w.script]
          ELSE /\ prev' = [prev EXCEPT !.buffer = buf]
               /\ last' = obs
    /\ UNCHANGED <<backend, endpoints, default_device_id, phase, device_names,
                   device_ids, current_device_name, blocking, open_streams>>

\* self.prev = ALSADriverPrev::new(..)?; Ok(()) of the four setters: the
\* replacement is opened while the old stream is still open, and the old
\* one is dropped by the assignment.
ALSA_reopen(op, arg, held, name, latency, frequency, blocking_) ==
    \E o \in AlsaOpenAnswers :
        IF o.ok
        THEN /\ prev' = ALSADriverPrev_new(name, latency, frequency, blocking_, o)
             /\ last' = [Obs(op, arg, held, "Ok") EXCEPT
                           !.opened = 1, !.closed = 1, !.order = <<"open", "close">>]
        ELSE /\ prev' = prev
             /\ last' = Obs(op, arg, held, "ALSAError")

\* A setter without its early return: it reopens whatever value it is given.
AlsaNeverHolds(held, value) == FALSE

\* The early return of a setter whose value is already held.
AlsaHolds(held, value) == held = value

ALSA_frame ==
    /\ backend = "alsa"
    /\ phase = "ready"
    /\ UNCHANGED <<backend, endpoints, default_device_id, phase, device_names,
                   device_ids, current_device_name, blocking, cursor, open_streams>>

\* ALSADriver::support_frequencies
ALSA_support_frequencies == <<44100, 48000, 96000>>

\* ALSADriver::support_latencies
ALSA_support_latencies == <<20, 40, 60, 80, 100>>

\* ALSADriver::support_channels
ALSA_support_channels == <<2>>

\* ALSADriver::set_device
ALSADriver_set_device(device) ==
    /\ ALSA_frame
    /\ IF device \notin SeqToSet(device_names)
       THEN /\ last' = Obs("set_device", device, prev.name, "DeviceNotFound")
            /\ prev' = prev
       ELSE IF AlsaHolds(prev.name, device)
            THEN /\ last' = Obs("set_device", device, prev.name, "Ok")
                 /\ prev' = prev
            ELSE ALSA_reopen("set_device", device, prev.name,
                             device, prev.latency, prev.frequency, prev.blocking)

\* ALSADriver::set_blocking
ALSADriver_set_blocking(blocking_) ==
    /\ ALSA_frame
    /\ IF AlsaHolds(prev.blocking, blocking_)
       THEN /\ last' = Obs("set_blocking", blocking_, prev.blocking, "Ok")
            /\ prev' = prev
       ELSE ALSA_reopen("set_blocking", blocking_, prev.blocking,
                        prev.name, prev.latency, prev.frequency, blocking_)

\* ALSADriver::set_frequency
ALSADriver_set_frequency(frequency) ==
    /\ ALSA_frame
    /\ IF frequency \notin SeqToSet(ALSA_support_frequencies)
       THEN /\ last' = Obs("set_frequency", frequency, prev.frequency, "Unsupported")
            /\ prev' = prev
       ELSE IF AlsaHolds(prev.frequency, frequency)
            THEN /\ last' = Obs("set_frequency", frequency, prev.frequency, "Ok")
                 /\ prev' = prev
            ELSE ALSA_reopen("set_frequency", frequency, prev.frequency,
                             prev.name, prev.latency, frequency, prev.blocking)

\* ALSADriver::set_latency
ALSADriver_set_latency(latency) ==
    /\ ALSA_frame
    /\ IF latency \notin SeqToSet(ALSA_support_latencies)
       THEN /\ last' = Obs("set_latency", latency, prev.latency, "Unsupported")
            /\ prev' = prev
       ELSE IF AlsaHolds(prev.latency, latency)
            THEN /\ last' = Obs("set_latency", latency, prev.latency, "Ok")
                 /\ prev' = prev
            ELSE ALSA_reopen("set_latency", latency, prev.latency,
                             prev.name, latency, prev.frequency, prev.blocking)

-----------------------------------------------------------------------------
(* Event-driven backend: WASAPIDriverPrev and WASAPIDriver                 *)
(* (src/audio/wasapi.rs).                                                  *)

\* Answers of opening a stream: a failure, or the buffer size and the wave
\* format of the stream that was opened.
WasapiOpenAnswers ==
    { [ok |-> FALSE, buffer_size |-> 0, stage |-> st,
       format |-> [channels |-> 0, frequency |-> 0, mode |-> 0, precision |-> 0]] :
        st \in {"Initialize", "CreateEventW", "Start"} }
    \cup WasapiStreams

\* The handles WASAPIDriverPrev::new has acquired and not handed to anyone
\* when it returns an error at `stage`: up to Initialize (or at
\* AvSetMmThreadCharacteristicsW) none; at CreateEventW the thread-scheduling
\* token of an exclusive stream; from SetEventHandle to Start the event
\* handle as well.  A HANDLE has no destructor.
Unreleased(exclusive, stage) ==
    CASE stage = "Initialize" -> 0
      [] stage = "CreateEventW" -> IF exclusive THEN 1 ELSE 0
      [] stage = "Start" -> IF exclusive THEN 2 ELSE 1

\* Which release step of a drop fails, if any.
DropAnswers(p) ==
    {"", "Stop", "CloseHandle"}
    \cup (IF p.task_handle THEN {"AvRevertMmThreadCharacteristics"} ELSE {})

\* impl Drop for WASAPIDriverPrev: the release steps it makes on p when
\* step d fails (a failure is printed, and the next step follows).
WASAPIDriverPrev_drop(p, d) ==
    <<"Stop", "CloseHandle">>
    \o (IF p.task_handle THEN <<"AvRevertMmThreadCharacteristics">> ELSE <<>>)

\* The drop of p, for each release step that can fail: the steps made.  A
\* failure changes nothing the engine keeps.
Dropped(p) == { <<d, WASAPIDriverPrev_drop(p, d)>> : d \in DropAnswers(p) }

\* A stream that records the latency Initialize was given (the larger of
\* the latency asked for and the device period, here 30 ms), not the one
\* asked for.
WASAPIDriverPrev_period(audio_device, exclusive, latency, o) ==
    [ audio_client |-> [sharemode |-> IF exclusive THEN "exclusive" ELSE "shared"],
      audio_device |-> audio_device,
      buffer_size  |-> o.buffer_size,
      channels     |-> o.format.channels,
      exclusive    |-> exclusive,
      frequency    |-> o.format.frequency,
      latency      |-> Max(latency, 30),
      mode         |-> o.format.mode,
      precision    |-> o.format.precision,
      samples      |-> <<>>,
      task_handle  |-> exclusive ]

\* WASAPIDriverPrev::new, the Ok(..) value.  audio_client carries the share
\* mode the client was initialized with, audio_device the endpoint's id.
WASAPIDriverPrev_new(audio_device, exclusive, latency, o) ==
    [ audio_client |-> [sharemode |-> IF exclusive THEN "exclusive" ELSE "shared"],
      audio_device |-> audio_device,
      buffer_size  |-> o.buffer_size,
      channels     |-> o.format.channels,
      exclusive    |-> exclusive,
      frequency    |-> o.format.frequency,
      latency      |-> latency,
      mode         |-> o.format.mode,
      precision    |-> o.format.precision,
      samples      |-> <<>>,
      task_handle  |-> exclusive ]

\* The loop of WASAPIDriver::new over the enumerated endpoints: the default
\* endpoint is inserted at the front, the others are pushed at the back.
RECURSIVE Enumerate(_, _, _, _, _)
Enumerate(eps, i, default_id, names, ids) ==
    IF i > Len(eps)
    THEN [names |-> names, ids |-> ids]
    ELSE IF eps[i].id = default_id
         THEN Enumerate(eps, i + 1, default_id,
                        <<eps[i].name>> \o names, <<eps[i].id>> \o ids)
         ELSE Enumerate(eps, i + 1, default_id,
                        Append(names, eps[i].name), Append(ids, eps[i].id))

\* WASAPIDriver::new
WASAPIDriver_new ==
    /\ backend = "wasapi"
    /\ phase = "start"
    /\ \/ \* CoCreateInstance fails
          /\ phase' = "failed"
          /\ last' = Obs("new", "CoCreateInstance", 0, "WindowsError")
          /\ UNCHANGED <<device_names, device_ids, prev, current_device_name,
                         open_streams>>
       \/ \* GetDefaultAudioEndpoint fails: there is no endpoint
          /\ Len(endpoints) = 0
          /\ phase' = "failed"
          /\ last' = Obs("new", "GetDefaultAudioEndpoint", 0, "WindowsError")
          /\ UNCHANGED <<device_names, device_ids, prev, current_device_name,
                         open_streams>>
       \/ \* a later call (the enumeration, WASAPIDriverPrev::new) fails
          /\ Len(endpoints) > 0
          /\ phase' = "failed"
          /\ \E o \in WasapiOpenAnswers :
               /\ ~o.ok
               /\ last' = [Obs("new", "WASAPIDriverPrev::new", 0, "WindowsError")
                            EXCEPT !.leaked = Unreleased(FALSE, o.stage)]
          /\ UNCHANGED <<device_names, device_ids, prev, current_device_name,
                         open_streams>>
       \/ /\ Len(endpoints) > 0
          /\ \E o \in WasapiOpenAnswers :
               /\ o.ok
               /\ LET e == Enumerate(endpoints, 1, default_device_id, <<>>, <<>>) IN
                  /\ device_names' = e.names
                  /\ device_ids' = e.ids
                  /\ current_device_name' = e.names[1]
               /\ prev' = WASAPIDriverPrev_new(default_device_id, FALSE, 40, o)
               /\ phase' = "ready"
               /\ open_streams' = 1
               /\ last' = [Obs("new", "", 0, "Ok") EXCEPT !.opened = 1,
                                                           !.order = <<"open">>]
    /\ blocking' = TRUE
    /\ UNCHANGED <<backend, endpoints, default_device_id, cursor>>

\* The device_id lookup of WASAPIDriver::reset: the id zipped with the
\* first name equal to current_device_name ("" when there is none).
RECURSIVE FindId(_, _, _, _)
FindId(ids, names, name, i) ==
    IF i > Len(ids) \/ i > Len(names)
    THEN ""
    ELSE IF names[i] = name THEN ids[i] ELSE FindId(ids, names, name, i + 1)

\* WASAPIDriver::reset on the engine whose fields have the values given
\* (the setter has already stored its new value in one of them).
WASAPIDriver_reset(obs, prev_, name_) ==
    LET device_id == FindId(device_ids, device_names, name_, 1) IN
    IF device_id = ""
    THEN /\ prev' = prev_
         /\ last' = [obs EXCEPT !.result = "DeviceNotFound"]
    ELSE \/ \* GetDevice fails
            /\ prev' = prev_
            /\ last' = [obs EXCEPT !.result = "WindowsError"]
         \/ \E o \in WasapiOpenAnswers :
              IF o.ok
              THEN \* the new stream is assigned to self.prev: the old one
                   \* is dropped then
                   /\ prev' = WASAPIDriverPrev_new(device_id, prev_.exclusive,
                                                   prev_.latency, o)
                   /\ last' = [obs EXCEPT !.opened = 1, !.closed = 1,
                                          !.order = <<"open", "close">>,
                                          !.drop = Dropped(prev)]
              ELSE /\ prev' = prev_
                   /\ last' = [obs EXCEPT !.result = "WindowsError",
                                !.leaked = Unreleased(prev_.exclusive, o.stage)]

WASAPI_frame ==
    /\ backend = "wasapi"
    /\ phase = "ready"
    /\ UNCHANGED <<backend, endpoints, default_device_id, phase, device_names,
                   device_ids, cursor, open_streams>>

\* The early return of a setter whose value is already held.
WasapiHolds(held, value) == held = value

\* WASAPIDriver::set_exclusive
WASAPIDriver_set_exclusive(exclusive) ==
    /\ WASAPI_frame
    /\ UNCHANGED <<current_device_name, blocking>>
    /\ LET obs == Obs("set_exclusive", exclusive, prev.exclusive, "Ok") IN
       IF WasapiHolds(prev.exclusive, exclusive)
       THEN /\ prev' = prev
            /\ last' = obs
       ELSE WASAPIDriver_reset(obs, [prev EXCEPT !.exclusive = exclusive],
                               current_device_name)

\* WASAPIDriver::set_device
WASAPIDriver_set_device(device) ==
    /\ WASAPI_frame
    /\ UNCHANGED blocking
    /\ LET obs == Obs("set_device", device, current_device_name, "Ok") IN
       IF WasapiHolds(current_device_name, device)
       THEN /\ prev' = prev
            /\ current_device_name' = current_device_name
            /\ last' = obs
       ELSE /\ current_device_name' = device
            /\ WASAPIDriver_reset(obs, prev, device)

\* WASAPIDriver::set_blocking
WASAPIDriver_set_blocking(blocking_) ==
    /\ WASAPI_frame
    /\ UNCHANGED <<prev, current_device_name>>
    /\ last' = Obs("set_blocking", blocking_, blocking, "Ok")
    /\ IF WasapiHolds(blocking, blocking_)
       THEN blocking' = blocking
       ELSE blocking' = blocking_

\* WASAPIDriver::set_latency
WASAPIDriver_set_latency(latency) ==
    /\ WASAPI_frame
    /\ UNCHANGED <<current_device_name, blocking>>
    /\ LET obs == Obs("set_latency", latency, prev.latency, "Ok") IN
       IF WasapiHolds(prev.latency, latency)
       THEN /\ prev' = prev
            /\ last' = obs
       ELSE WASAPIDriver_reset(obs, [prev EXCEPT !.latency = latency],
                               current_device_name)

\* The encodings WASAPIDriverPrev::write converts to.
Supported(mode, precision) ==
    \/ mode = 1 /\ precision = 16
    \/ mode = 1 /\ precision = 32
    \/ mode = 3 /\ precision = 32

\* Answers to one WASAPIDriverPrev::write on a stream of buffer_size frames:
\* GetCurrentPadding (padding_ok, padding: the frames the hardware has not
\* consumed, whether or not the code asks), GetBuffer, ReleaseBuffer.
\* An answer the code never asks for is left at its first value.
WasapiWriteAnswers(buffer_size) ==
    { a \in [ padding_ok : BOOLEAN, padding : 0..buffer_size,
              get_buffer : {"Ok", "Err"}, release_buffer : {"Ok", "Err"} ] :
        /\ ~a.padding_ok => (a.padding = 0 /\ a.get_buffer = "Ok")
        /\ (~a.padding_ok \/ a.get_buffer = "Err") => a.release_buffer = "Ok" }

\* let available = ..; let length = available.min(self.samples.len())
WasapiLength(p, padding) ==
    LET available == IF ~p.exclusive THEN p.buffer_size - padding ELSE p.buffer_size
    IN Min(available, Len(p.samples))

\* The number of frames the for loop of write() pops for `length`.
WasapiPopped(p, length) ==
    IF Supported(p.mode, p.precision) THEN length ELSE Min(1, length)

Drop(s, n) == SubSeq(s, n + 1, Len(s))

\* WASAPIDriverPrev::write on p with the device's answers.
WASAPIDriverPrev_write(p, a) ==
    IF ~p.exclusive /\ ~a.padding_ok
    THEN [result |-> "WindowsError", samples |-> p.samples, queries |-> 1,
          requested |-> 0, popped |-> 0, submitted |-> 0]
    ELSE LET length == WasapiLength(p, a.padding)
             q == IF p.exclusive THEN 0 ELSE 1
         IN IF a.get_buffer = "Err"
            THEN [result |-> "WindowsError", samples |-> p.samples, queries |-> q,
                  requested |-> length, popped |-> 0, submitted |-> 0]
            ELSE LET n == WasapiPopped(p, length) IN
                 IF a.release_buffer = "Err"
                 THEN [result |-> "WindowsError", samples |-> Drop(p.samples, n),
                       queries |-> q, requested |-> length, popped |-> n,
                       submitted |-> 0]
                 ELSE [result |-> "Ok", samples |-> Drop(p.samples, n),
                       queries |-> q, requested |-> length, popped |-> n,
                       submitted |-> length]

\* What WaitForSingleObject can return on the event handle: with INFINITE
\* it returns once the event is signalled.
WaitAnswers(blocking_) ==
    IF blocking_ THEN {"WAIT_OBJECT_0"} ELSE {"WAIT_OBJECT_0", "WAIT_TIMEOUT"}

\* if self.blocking { INFINITE } else { 0 }: 1 when the wait made has no
\* timeout.
Unbounded(blocking_) == IF blocking_ THEN 1 ELSE 0

\* if self.prev.samples.len() >= self.prev.buffer_size as usize
WasapiAtThreshold(len, buffer_size) == len >= buffer_size

\* The test of the wait's answer against WAIT_FAILED instead: a wait that
\* timed out would count as signalled.
NotFailed(w) == w # "WAIT_FAILED"

\* == WAIT_OBJECT_0
Signalled(w) == w = "WAIT_OBJECT_0"

\* WASAPIDriver::output
WASAPIDriver_output ==
    /\ backend = "wasapi"
    /\ phase = "ready"
    /\ Len(prev.samples) < MaxQueue
    /\ cursor' = NextCursor(cursor)
    /\ LET frame == CallerSignal[cursor]
           p == [prev EXCEPT !.samples = Append(@, SubSeq(frame, 1, prev.channels))]
           obs == [Obs("output", frame, 0, "Ok") EXCEPT
                     !.threshold = prev.buffer_size, !.offered = Len(p.samples)]
       IN IF WasapiAtThreshold(Len(p.samples), p.buffer_size)
          THEN \E w \in WaitAnswers(blocking) :
                 IF Signalled(w)
                 THEN \E a \in WasapiWriteAnswers(p.buffer_size) :
                        LET r == WASAPIDriverPrev_write(p, a) IN
                        /\ prev' = [p EXCEPT !.samples = r.samples]
                        /\ last' = [obs EXCEPT !.result = r.result, !.waits = 1,
                                      !.unbounded_waits = Unbounded(blocking),
                                      !.signal = w,
                                      !.writes = 1, !.queries = r.queries,
                                      !.padding = a.padding,
                                      !.requested = r.requested,
                                      !.popped = r.popped,
                                      !.submitted = r.submitted]
                 ELSE /\ prev' = p
                      /\ last' = [obs EXCEPT !.result = "WaitTimeout", !.waits = 1,
                                    !.unbounded_waits = Unbounded(blocking),
                                    !.signal = w]
          ELSE /\ prev' = p
               /\ last' = obs
    /\ UNCHANGED <<backend, endpoints, default_device_id, phase, device_names,
                   device_ids, current_device_name, blocking, open_streams>>

\* Which call of clear() on the audio client fails, if any.
ClearAnswers == {"", "Stop", "Reset", "Start"}

\* The calls clear() makes on the audio client when call c fails: each is
\* followed by `?`.
ClearCalls(c) ==
    CASE c = "Stop" -> <<"Stop">>
      [] c = "Reset" -> <<"Stop", "Reset">>
      [] OTHER -> <<"Stop", "Reset", "Start">>

\* A clear that restarts the transport and keeps the pending frames.
WASAPIDriverPrev_restart(p, c) ==
    [ prev |-> p,
      result |-> IF c = "" THEN "Ok" ELSE "WindowsError",
      transport |-> ClearCalls(c) ]

\* WASAPIDriverPrev::clear on p when call c fails.
WASAPIDriverPrev_clear(p, c) ==
    [ prev |-> [p EXCEPT !.samples = <<>>],
      result |-> IF c = "" THEN "Ok" ELSE "WindowsError",
      transport |-> ClearCalls(c) ]

\* WASAPIDriver::clear
WASAPIDriver_clear ==
    /\ WASAPI_frame
    /\ \E c \in ClearAnswers :
         LET r == WASAPIDriverPrev_clear(prev, c) IN
         /\ prev' = r.prev
         /\ last' = [Obs("clear", 0, 0, r.result) EXCEPT
                       !.popped = Len(prev.samples),
                       !.transport = r.transport]
    /\ UNCHANGED <<current_device_name, blocking>>

-----------------------------------------------------------------------------
(* The trait AudioDriver and the facade Audio (src/audio/mod.rs).          *)

\* AudioDriver::support_exclusive
support_exclusive == backend = "wasapi"

\* AudioDriver::support_device_list
support_device_list == device_names

\* AudioDriver::support_blocking
support_blocking == TRUE

\* AudioDriver::support_channels
support_channels ==
    IF backend = "alsa" THEN ALSA_support_channels ELSE <<prev.channels>>

\* AudioDriver::support_frequencies
support_frequencies ==
    IF backend = "alsa" THEN ALSA_support_frequencies ELSE <<prev.frequency>>

\* WASAPIDriver::support_latencies
WASAPI_support_latencies == <<0, 20, 40, 60, 80, 100>>

\* AudioDriver::support_latencies
support_latencies ==
    IF backend = "alsa" THEN ALSA_support_latencies ELSE WASAPI_support_latencies

\* A setter the driver leaves to the trait's default body: Ok(()).
TraitDefault(op, arg, held) ==
    /\ phase = "ready"
    /\ last' = Obs(op, arg, held, "Ok")
    /\ UNCHANGED <<backend, endpoints, default_device_id, phase, device_names,
                   device_ids, prev, current_device_name, blocking, cursor,
                   open_streams>>

\* The setters of the driver in use (self.instance.set_..).
AudioDriver_set_exclusive(exclusive) ==
    \/ WASAPIDriver_set_exclusive(exclusive)
    \/ backend = "alsa" /\ TraitDefault("set_exclusive", exclusive, FALSE)

AudioDriver_set_device(device) ==
    \/ ALSADriver_set_device(device)
    \/ WASAPIDriver_set_device(device)

AudioDriver_set_blocking(blocking_) ==
    \/ ALSADriver_set_blocking(blocking_)
    \/ WASAPIDriver_set_blocking(blocking_)

AudioDriver_set_channels(channels) ==
    \/ backend = "alsa" /\ TraitDefault("set_channels", channels, 2)
    \/ backend = "wasapi" /\ TraitDefault("set_channels", channels, prev.channels)

AudioDriver_set_frequency(frequency) ==
    \/ ALSADriver_set_frequency(frequency)
    \/ backend = "wasapi" /\ TraitDefault("set_frequency", frequency, prev.frequency)

AudioDriver_set_latency(latency) ==
    \/ ALSADriver_set_latency(latency)
    \/ WASAPIDriver_set_latency(latency)

\* A facade that hands every value to the driver.
GateOpen(list, value) == TRUE

\* The capability test of a facade setter: list.contains(&value).
Gate(list, value) == value \in SeqToSet(list)

\* The Err(Error::Unsupported(..)) arm of a facade setter.
Rejected(op, arg) ==
    /\ last' = [NoObs EXCEPT !.op = op, !.arg = arg, !.result = "Unsupported"]
    /\ UNCHANGED <<backend, endpoints, default_device_id, phase, device_names,
                   device_ids, prev, current_device_name, blocking, cursor,
                   open_streams>>

\* Audio::set_exclusive
Audio_set_exclusive(exclusive) ==
    /\ phase = "ready"
    /\ IF support_exclusive
       THEN AudioDriver_set_exclusive(exclusive)
       ELSE Rejected("set_exclusive", exclusive)

\* Audio::set_device
Audio_set_device(device) ==
    /\ phase = "ready"
    /\ IF Gate(support_device_list, device)
       THEN AudioDriver_set_device(device)
       ELSE Rejected("set_device", device)

\* Audio::set_blocking
Audio_set_blocking(blocking_) ==
    /\ phase = "ready"
    /\ IF support_blocking
       THEN AudioDriver_set_blocking(blocking_)
       ELSE Rejected("set_blocking", blocking_)

\* Audio::set_channels
Audio_set_channels(channels) ==
    /\ phase = "ready"
    /\ IF Gate(support_channels, channels)
       THEN AudioDriver_set_channels(channels)
       ELSE Rejected("set_channels", channels)

\* Audio::set_frequency
Audio_set_frequency(frequency) ==
    /\ phase = "ready"
    /\ IF Gate(support_frequencies, frequency)
       THEN AudioDriver_set_frequency(frequency)
       ELSE Rejected("set_frequency", frequency)

\* Audio::set_latency
Audio_set_latency(latency) ==
    /\ phase = "ready"
    /\ IF Gate(support_latencies, latency)
       THEN AudioDriver_set_latency(latency)
       ELSE Rejected("set_latency", latency)

-----------------------------------------------------------------------------
(* The engine driven through its driver (the trait AudioDriver):           *)
(* construction, then any call.                                            *)

Construct ==
    \/ ALSADriver_new
    \/ WASAPIDriver_new

Output ==
    \/ ALSADriver_output
    \/ WASAPIDriver_output

\* clear() is a method of WASAPIDriver itself, not of the trait.
Clear == WASAPIDriver_clear

Next ==
    \/ Construct
    \/ Output
    \/ Clear
    \/ \E b \in BOOLEAN : AudioDriver_set_exclusive(b)
    \/ \E device \in DeviceArgs : AudioDriver_set_device(device)
    \/ \E b \in BOOLEAN : AudioDriver_set_blocking(b)
    \/ \E channels \in ChannelArgs : AudioDriver_set_channels(channels)
    \/ \E frequency \in FrequencyArgs : AudioDriver_set_frequency(frequency)
    \/ \E latency \in LatencyArgs : AudioDriver_set_latency(latency)

Spec == Init /\ [][Next]_vars

(* The engine driven through the facade Audio.                             *)

NextAudio ==
    \/ Construct
    \/ Output
    \/ \E b \in BOOLEAN : Audio_set_exclusive(b)
    \/ \E device \in DeviceArgs : Audio_set_device(device)
    \/ \E b \in BOOLEAN : Audio_set_blocking(b)
    \/ \E channels \in ChannelArgs : Audio_set_channels(channels)
    \/ \E frequency \in FrequencyArgs : Audio_set_frequency(frequency)
    \/ \E latency \in LatencyArgs : Audio_set_latency(latency)

SpecAudio == Init /\ [][NextAudio]_vars

-----------------------------------------------------------------------------
(* What the properties below observe of a state and of a call.             *)

\* The pending queue (prev.buffer in samples, prev.samples in frames).
Queue == IF backend = "alsa" THEN prev.buffer ELSE prev.samples

\* Its length in frames.
QueueFrames ==
    IF backend = "alsa" THEN Len(prev.buffer) \div 2 ELSE Len(prev.samples)

\* The delivery threshold of the open stream, in frames.
Threshold == IF backend = "alsa" THEN prev.period_size ELSE prev.buffer_size

\* What output() appends to the queue for the caller's next frame.
Pushed ==
    LET frame == CallerSignal[cursor] IN
    IF backend = "alsa"
    THEN <<ToI16(frame[1]), ToI16(frame[2])>>
    ELSE <<SubSeq(frame, 1, prev.channels)>>

\* A step that is a call of output(): only output() moves the caller's cursor.
OutputCall == phase = "ready" /\ cursor' # cursor

\* A step that is a call of a setter: last' names it.
SetterOps ==
    {"set_device", "set_exclusive", "set_blocking", "set_frequency", "set_latency"}

SetterCall == phase = "ready" /\ cursor' = cursor /\ last'.op \in SetterOps

\* The value the engine holds for the parameter a setter sets.
Held(op) ==
    CASE op = "set_device" ->
           IF backend = "alsa" THEN prev.name ELSE current_device_name
      [] op = "set_exclusive" -> prev.exclusive
      [] op = "set_blocking" ->
           IF backend = "alsa" THEN prev.blocking ELSE blocking
      [] op = "set_frequency" -> prev.frequency
      [] op = "set_latency" -> prev.latency

\* The engine (stream, queue, configuration) is as it was before the step.
EngineUnchanged ==
    /\ prev' = prev
    /\ current_device_name' = current_device_name
    /\ blocking' = blocking
    /\ open_streams' = open_streams
    /\ last'.opened = 0
    /\ last'.closed = 0

\* The call of output() that only appends: nothing is asked of the device.
OnlyAppends ==
    /\ Queue' = Queue \o Pushed
    /\ last'.result = "Ok"
    /\ last'.waits = 0
    /\ last'.queries = 0
    /\ last'.writes = 0
    /\ last'.attempts = 0
    /\ last'.requested = 0
    /\ last'.submitted = 0

-----------------------------------------------------------------------------
(* C1: threshold-gated delivery.                                           *)

\* C1, as the specification states it: a call of output() that leaves the
\* queue below the threshold T only appends; the call that brings it to T
\* invokes write() exactly once, and that delivery submits at most T frames.
C1_ThresholdCallDeliversOnce ==
    [][ OutputCall =>
          /\ QueueFrames + 1 < Threshold => OnlyAppends
          /\ QueueFrames + 1 = Threshold =>
               /\ last'.writes = 1
               /\ last'.requested <= Threshold
               /\ last'.submitted <= Threshold ]_vars

\* C1, as the code has it: the call that brings the queue to T invokes
\* write() exactly once, except that on the event-driven backend in
\* non-blocking mode a wait that is not signalled returns WaitTimeout
\* without invoking write(); a delivery submits at most T frames, and below
\* T the call only appends.
C1_ThresholdCallDeliversAtMostOnce ==
    [][ OutputCall =>
          /\ QueueFrames + 1 < Threshold => OnlyAppends
          /\ QueueFrames + 1 = Threshold =>
               IF last'.result = "WaitTimeout"
               THEN /\ backend = "wasapi"
                    /\ ~blocking
                    /\ last'.waits = 1
                    /\ last'.writes = 0
                    /\ last'.requested = 0
                    /\ last'.submitted = 0
               ELSE /\ last'.writes = 1
                    /\ last'.requested <= Threshold
                    /\ last'.submitted <= Threshold ]_vars

\* The second call on a stream of threshold 2 delivers both frames in one
\* write().
C1_Witness ==
    /\ phase = "ready"
    /\ last.op = "output"
    /\ last.threshold = 2
    /\ last.offered = 2
    /\ last.writes = 1
    /\ last.submitted = 2
    /\ QueueFrames = 0

-----------------------------------------------------------------------------
(* C2: what one delivery hands to a shared-mode stream.                    *)

\* C2: on the event-driven backend, whenever the open stream is a
\* shared-mode stream, a delivery asks the device for, and submits, at most
\* buffer_size - padding frames, padding being the stream's padding at that
\* delivery.
C2_SharedDeliveryWithinFreeSpace ==
    ( /\ backend = "wasapi"
      /\ phase = "ready"
      /\ last.op = "output"
      /\ last.writes = 1
      /\ prev.audio_client.sharemode = "shared" )
    => /\ last.requested <= prev.buffer_size - last.padding
       /\ last.submitted <= prev.buffer_size - last.padding

-----------------------------------------------------------------------------
(* C3: a setter called with the value held.                                *)

\* C3: a setter (set_device, set_exclusive, set_blocking, set_frequency,
\* set_latency) called with the value the engine holds returns Ok and
\* reconfigures nothing: the same stream is open, and the queue and every
\* configuration field are as before.
C3_SetterWithHeldValueIsNoOp ==
    [][ ( /\ SetterCall
          /\ last'.op = "set_exclusive" => backend = "wasapi"
          /\ last'.arg = Held(last'.op) )
        => /\ last'.result = "Ok"
           /\ EngineUnchanged ]_vars

\* A setter has been called with the value held while frames were pending.
C3_Witness ==
    /\ phase = "ready"
    /\ last.op = "set_latency"
    /\ last.arg = last.held
    /\ last.arg = prev.latency
    /\ last.result = "Ok"
    /\ last.opened = 0
    /\ QueueFrames > 0

-----------------------------------------------------------------------------
(* C4: the retries of the polling backend's delivery loop.                 *)

\* C4: when write() reaches its delivery phase and the device refuses the
\* first N attempts and accepts everything offered from attempt N+1 on, the
\* whole queue is delivered and the queue is empty afterwards for N < 4,
\* and not all frames are delivered for N >= 4.
C4_FourRefusalsDegradeDelivery ==
    \A n \in 0..MaxFails :
      ( /\ backend = "alsa"
        /\ phase = "ready"
        /\ last.op = "output"
        /\ last.writes = 1
        /\ last.script = FailThen(n, "Ok", MaxQueue) )
      => IF n < 4
         THEN last.submitted = last.offered /\ prev.buffer = <<>>
         ELSE last.submitted < last.offered

-----------------------------------------------------------------------------
(* C5: a setter that returns an error.                                     *)

\* C5: a setter that returns an error leaves the engine as it was: device
\* name, exclusive flag, latency, sample rate and blocking flag hold the
\* values they had before the call, and the same stream is still open.
C5_FailedSetterLeavesEngine ==
    [][ (SetterCall /\ last'.result # "Ok") => EngineUnchanged ]_vars

-----------------------------------------------------------------------------
(* C6: the capability gate of the facade.                                  *)

\* The capability list a gated facade setter tests its value against.
CapabilityList(op) ==
    CASE op = "set_frequency" -> support_frequencies
      [] op = "set_channels" -> support_channels
      [] op = "set_latency" -> support_latencies
      [] op = "set_device" -> support_device_list

\* C6: Audio::set_frequency, set_channels, set_latency and set_device,
\* called with a value that is not in the backend's current capability
\* list, return Unsupported without invoking the backend's setter: the open
\* stream, its sample rate and the pending queue are unchanged.
C6_GateRejectsWithoutCallingDriver ==
    [][ ( /\ phase = "ready"
          /\ cursor' = cursor
          /\ last'.op \in {"set_frequency", "set_channels", "set_latency",
                           "set_device"}
          /\ \A k \in DOMAIN CapabilityList(last'.op) :
               CapabilityList(last'.op)[k] # last'.arg )
        => /\ last'.result = "Unsupported"
           /\ ~last'.invoked
           /\ EngineUnchanged ]_vars

\* The facade has rejected a sample rate while frames were pending.
C6_Witness ==
    /\ phase = "ready"
    /\ last.op = "set_frequency"
    /\ last.arg = 22050
    /\ last.result = "Unsupported"
    /\ ~last.invoked
    /\ QueueFrames > 0

-----------------------------------------------------------------------------
(* C7: construction without an endpoint.                                   *)

\* C7: on both backends, construction against a backend that reports zero
\* output endpoints fails with the NoDevice kind and opens no stream.  (A
\* construction whose enumeration facility itself cannot be created, HintIter
\* or CoCreateInstance, is not such a report.)
C7_NoEndpointIsNoDevice ==
    ( /\ last.op = "new"
      /\ Len(endpoints) = 0
      /\ last.arg \notin {"HintIter", "CoCreateInstance"} )
    => /\ last.result = "NoDevice"
       /\ phase = "failed"
       /\ open_streams = 0

-----------------------------------------------------------------------------
(* C8: the wait that times out.                                            *)

\* C8: on the event-driven backend in non-blocking mode, a call of output()
\* that brings the queue to the threshold while the readiness event is not
\* signalled returns WaitTimeout, submits nothing and drops nothing: the
\* queue is what it was, followed by the frame pushed.
C8_TimeoutKeepsEveryFrame ==
    [][ ( /\ OutputCall
          /\ backend = "wasapi"
          /\ ~blocking
          /\ Len(prev.samples) + 1 >= prev.buffer_size
          /\ last'.signal = "WAIT_TIMEOUT" )
        => /\ last'.result = "WaitTimeout"
           /\ last'.writes = 0
           /\ last'.requested = 0
           /\ last'.popped = 0
           /\ last'.submitted = 0
           /\ prev' = [prev EXCEPT !.samples = prev.samples \o Pushed] ]_vars

\* A wait has timed out on a queue that already held frames.
C8_Witness ==
    /\ backend = "wasapi"
    /\ phase = "ready"
    /\ ~blocking
    /\ last.op = "output"
    /\ last.signal = "WAIT_TIMEOUT"
    /\ last.result = "WaitTimeout"
    /\ last.offered >= 2
    /\ Len(prev.samples) = last.offered

-----------------------------------------------------------------------------
(* C9: the length of the pending queue.                                    *)

\* C9: in every reachable state of either backend the pending queue holds
\* at most a fixed multiple (here twice) of the stream's delivery threshold.
C9_QueueWithinTwiceThreshold ==
    phase = "ready" => QueueFrames <= 2 * Threshold

-----------------------------------------------------------------------------
(* C10: the names of one enumeration.                                      *)

\* C10: the display names support_device_list() returns are pairwise
\* distinct, so a name given to set_device identifies one endpoint.
C10_DeviceNamesDistinct ==
    phase = "ready" =>
      \A i, j \in DOMAIN support_device_list :
        i # j => support_device_list[i] # support_device_list[j]

-----------------------------------------------------------------------------
(* C11: waiting in non-blocking mode.                                      *)

\* The blocking flag of the engine.
BlockingFlag == IF backend = "alsa" THEN prev.blocking ELSE blocking

\* C11: on both backends, while the blocking flag is false a call of
\* output() makes no wait without a timeout on the device: it returns at
\* once.  Only with the flag true may output() wait indefinitely.
C11_NonBlockingNeverWaits ==
    (phase = "ready" /\ last.op = "output" /\ ~BlockingFlag)
    => last.unbounded_waits = 0

-----------------------------------------------------------------------------
(* C12: what output() propagates of a device failure.                      *)

\* C12: on both backends output() returns a device error only if a
\* recovery call itself failed during that call; a failed query or write
\* alone is recovered, not propagated.
C12_DeviceErrorOnlyAfterFailedRecovery ==
    ( /\ phase = "ready"
      /\ last.op = "output"
      /\ last.result \in {"ALSAError", "WindowsError"} )
    => last.recover_failed > 0

-----------------------------------------------------------------------------
(* C13: the number of delivery attempts of the polling backend.            *)

\* C13: one write() of the polling backend makes at most 4 delivery
\* attempts, and stops as soon as the whole queue has been delivered: with
\* a device that refuses n <= 3 attempts and then accepts everything it
\* makes n + 1 attempts.
C13_AtMostFourAttempts ==
    (backend = "alsa" /\ phase = "ready" /\ last.op = "output" /\ last.writes = 1)
    => /\ last.attempts <= 4
       /\ \A n \in 0..3 :
            last.script = FailThen(n, "Ok", MaxQueue) => last.attempts = n + 1

-----------------------------------------------------------------------------
(* C14: a failed recovery on the polling backend.                          *)

\* C14: on the polling backend, whenever a recovery call fails during
\* write() (after a failed query, wait or write attempt), output() returns
\* an error, not Ok.
C14_FailedRecoveryIsReturned ==
    ( /\ backend = "alsa"
      /\ phase = "ready"
      /\ last.op = "output"
      /\ last.recover_failed > 0 )
    => last.result # "Ok"

-----------------------------------------------------------------------------
(* C15, C16: what write() of the polling backend leaves in the queue.     *)

\* A call of output() on the polling backend whose write() returned Ok.
AlsaWriteOk ==
    /\ OutputCall
    /\ backend = "alsa"
    /\ last'.writes = 1
    /\ last'.result = "Ok"

\* C15: when write() ran out of attempts after delivering k frames,
\* 0 < k < queued (a write() that returns Ok with part of the queue
\* undelivered has run out of attempts), the queue afterwards is exactly
\* the undelivered remainder: the k oldest frames are gone and the others
\* are kept in order.
C15_PartialDeliveryKeepsRemainder ==
    [][ ( /\ AlsaWriteOk
          /\ 0 < last'.submitted
          /\ last'.submitted < last'.offered )
        => prev'.buffer = SubSeq(prev.buffer \o Pushed, 2 * last'.submitted + 1,
                                 Len(prev.buffer) + 2) ]_vars

\* A write() has used all its attempts and delivered one frame of several.
C15_Witness ==
    /\ backend = "alsa"
    /\ phase = "ready"
    /\ last.op = "output"
    /\ last.result = "Ok"
    /\ last.attempts = FirstI + 1
    /\ last.submitted = 1
    /\ last.offered >= 2
    /\ Len(prev.buffer) = 2 * (last.offered - 1)

\* C16: when every delivery attempt of a write() delivered nothing, the
\* queue afterwards is the queue before with exactly its 2 oldest frames
\* (4 samples) removed and the others kept in order.
C16_NothingDeliveredDropsTwoFrames ==
    [][ (AlsaWriteOk /\ last'.attempts > 0 /\ last'.submitted = 0)
        => prev'.buffer = SubSeq(prev.buffer \o Pushed, 5, Len(prev.buffer) + 2) ]_vars

\* C16, as the code has it: when every delivery attempt of a write()
\* delivered nothing, the queue afterwards is the queue before with exactly
\* its oldest frame (2 samples, one per channel) removed and the others
\* kept in order.
C16_NothingDeliveredDropsOneFrame ==
    [][ (AlsaWriteOk /\ last'.attempts > 0 /\ last'.submitted = 0)
        => prev'.buffer = SubSeq(prev.buffer \o Pushed, 3, Len(prev.buffer) + 2) ]_vars

\* A write() has delivered nothing of two queued frames and kept the newer.
C16_Witness ==
    /\ backend = "alsa"
    /\ phase = "ready"
    /\ last.op = "output"
    /\ last.result = "Ok"
    /\ last.attempts = FirstI + 1
    /\ last.submitted = 0
    /\ last.offered = 2
    /\ Len(prev.buffer) = 2

-----------------------------------------------------------------------------
(* C17, C18: a setter that changes its parameter.                          *)

\* The setters a backend implements itself (the others are the trait's
\* default bodies).
Implements(op) ==
    IF backend = "alsa"
    THEN op \in {"set_device", "set_blocking", "set_frequency", "set_latency"}
    ELSE op \in {"set_exclusive", "set_device", "set_blocking", "set_latency"}

\* A step that is a successful call of an implemented setter with a value
\* other than the one held.
SetterChanges ==
    /\ SetterCall
    /\ Implements(last'.op)
    /\ last'.result = "Ok"
    /\ last'.arg # Held(last'.op)

\* The step closes the stream that was open and opens another.
Reopens ==
    /\ last'.opened = 1
    /\ last'.closed = 1
    /\ open_streams' = 1

ParamValue(q) ==
    CASE q = "device" -> IF backend = "alsa" THEN prev.name ELSE current_device_name
      [] q = "exclusive" -> IF backend = "alsa" THEN FALSE ELSE prev.exclusive
      [] q = "latency" -> prev.latency
      [] q = "frequency" -> prev.frequency
      [] q = "channels" -> IF backend = "alsa" THEN 2 ELSE prev.channels
      [] q = "blocking" -> BlockingFlag

\* The parameter a setter sets.
ParamOf(op) ==
    CASE op = "set_device" -> "device"
      [] op = "set_exclusive" -> "exclusive"
      [] op = "set_blocking" -> "blocking"
      [] op = "set_frequency" -> "frequency"
      [] op = "set_latency" -> "latency"

\* C18, as the specification states it: a successful setter call that
\* changes one parameter leaves every other parameter (device, exclusive
\* flag, latency, sample rate, channel count, blocking flag) as it was.
C18_OtherParametersKept ==
    [][ SetterChanges =>
          \A q \in {"device", "exclusive", "latency", "frequency", "channels",
                    "blocking"} \ {ParamOf(last'.op)} :
            ParamValue(q)' = ParamValue(q) ]_vars

\* The parameters a reopening keeps: those the caller sets.  The event-driven
\* backend takes sample rate and channel count from the format the endpoint
\* negotiates at each open.
KeptParams ==
    IF backend = "alsa"
    THEN {"device", "exclusive", "latency", "frequency", "channels", "blocking"}
    ELSE {"device", "exclusive", "latency", "blocking"}

\* C18, as the code has it: a successful setter call that changes one
\* parameter leaves device, exclusive flag, latency and blocking flag (and,
\* on the polling backend, sample rate and channel count) as they were.
C18_CallerParametersKept ==
    [][ SetterChanges =>
          \A q \in KeptParams \ {ParamOf(last'.op)} :
            ParamValue(q)' = ParamValue(q) ]_vars

\* The exclusive flag has been changed on a stream whose latency is not the
\* one the engine was built with.
C18_Witness ==
    /\ backend = "wasapi"
    /\ phase = "ready"
    /\ last.op = "set_exclusive"
    /\ last.result = "Ok"
    /\ last.arg = TRUE
    /\ prev.exclusive
    /\ prev.latency = 20
    /\ current_device_name = "A"

-----------------------------------------------------------------------------
(* C19: the order of close and open in a reconfiguration.                  *)

\* C19: in a reconfiguration the current stream is closed before the
\* replacement is opened: no call opens a stream and closes one afterwards,
\* and the engine never holds two open streams.
C19_CloseBeforeOpen ==
    /\ open_streams <= 1
    /\ \A i, j \in DOMAIN last.order :
         i < j => ~(last.order[i] = "open" /\ last.order[j] = "close")

-----------------------------------------------------------------------------
(* C20: the handles of the event-driven backend.                           *)

\* C20: on the event-driven backend no handle acquired while opening a
\* stream is left unreleased when the open fails part-way, and a drop makes
\* every release step whichever step fails.
C20_NoHandleLeftUnreleased ==
    backend = "wasapi" =>
      /\ last.leaked = 0
      /\ \A e, f \in last.drop :
           /\ e[2] = f[2]
           /\ "CloseHandle" \in SeqToSet(e[2])

-----------------------------------------------------------------------------
(* C21: the availability loop waits only while short of room.              *)

\* C21: in the polling backend's write(), the engine waits for the device
\* only while the available space, in frames, is less than the number of
\* queued frames; it goes on to the delivery as soon as the available space
\* is at least the number of queued frames.
C21_WaitsOnlyWhenShortOfFrames ==
    (backend = "alsa" /\ last.op = "output" /\ last.writes = 1)
        => last.waits_with_room = 0

-----------------------------------------------------------------------------
(* C22: clear() on the event-driven backend.                               *)

\* C22: clear() on the event-driven backend empties the pending queue and
\* restarts the transport (Stop, Reset, Start) on the same hardware stream:
\* the stream handle, the negotiated format, the buffer size and every
\* configuration field are as before, and no stream is closed or opened.
C22_ClearEmptiesQueueKeepsStream ==
    [][ (backend = "wasapi" /\ last'.op = "clear") =>
          /\ prev'.samples = <<>>
          /\ prev' = [prev EXCEPT !.samples = <<>>]
          /\ current_device_name' = current_device_name
          /\ blocking' = blocking
          /\ open_streams' = open_streams
          /\ last'.opened = 0
          /\ last'.closed = 0
          /\ last'.order = <<>>
          /\ last'.result = "Ok" => last'.transport = <<"Stop", "Reset", "Start">>
      ]_vars

\* A clear() that succeeded on a queue that held frames of an exclusive
\* stream.
C22_Witness ==
    /\ backend = "wasapi"
    /\ last.op = "clear"
    /\ last.result = "Ok"
    /\ last.popped > 0
    /\ prev.samples = <<>>
    /\ prev.exclusive

-----------------------------------------------------------------------------
(* C23: conversion to 16-bit samples.                                      *)

\* C23: on delivery to a 16-bit signed integer stream every amplitude a in
\* [-1.0, 1.0] is converted to round(a * 32767), the integer nearest to
\* a * 32767.  Here for the samples output() has just queued on the polling
\* backend: each is within one half of a * 32767, a = n / AmpDen.
C23_SampleIsNearestInteger ==
    (backend = "alsa" /\ last.op = "output" /\ last.writes = 0) =>
        LET len == Len(prev.buffer) IN
        \A c \in 1..2 :
            LET n == last.arg[c]
                v == prev.buffer[len - 2 + c]
                d == v * AmpDen - n * 32767
            IN 2 * (IF d >= 0 THEN d ELSE -d) <= AmpDen

-----------------------------------------------------------------------------
(* C24: order of delivery.                                                 *)

\* C24: across any sequence of output() calls, partial writes and retries,
\* frames are handed to the hardware in the order output() pushed them, and
\* no frame is handed to the hardware more than once.  Every delivery takes
\* the frames from the head of the queue, in order: the order is broken
\* exactly when a frame the hardware has taken is handed to it again.
C24_InOrderAndNoFrameTwice ==
    last.op = "output" => last.resent = 0

-----------------------------------------------------------------------------
(* C25: frames removed and frames released on the event-driven backend.    *)

\* C25: on the event-driven backend every delivery removes from the pending
\* queue exactly as many frames as it releases to the hardware buffer (the
\* frame count passed to GetBuffer and ReleaseBuffer), for every negotiated
\* format, the unsupported ones submitted as silence included.
C25_PoppedEqualsReleased ==
    (backend = "wasapi" /\ last.op = "output" /\ last.result = "Ok"
        /\ last.writes = 1)
        => last.popped = last.submitted

-----------------------------------------------------------------------------
(* C26: the queue of the polling backend stays below the threshold.        *)

\* The queue holds fewer frames than the delivery threshold.
BelowThreshold == QueueFrames < Threshold

\* C26: on the polling backend every write() that returns Ok strictly
\* shortens the queue (the queue it was called on: the old one and the frame
\* just pushed) and leaves it a whole number of frames; consequently, as long
\* as every output() call has returned Ok, the queue is strictly below the
\* delivery threshold each time output() returns.  The consequence is stated
\* by induction over the run: construction leaves the queue below the
\* threshold, and so does every call that finds it there, save an output()
\* that returns an error.
C26_OkWriteShortensQueue ==
    [][ (backend = "alsa" /\ phase' = "ready") =>
          /\ (OutputCall /\ last'.result = "Ok" /\ last'.writes = 1) =>
                /\ Len(prev'.buffer) < Len(prev.buffer \o Pushed)
                /\ Len(prev'.buffer) % 2 = 0
          /\ ( /\ phase = "ready" => BelowThreshold
               /\ ~(OutputCall /\ last'.result # "Ok") )
             => BelowThreshold'
      ]_vars

\* An output() whose write() returned Ok and left a frame in the queue,
\* below the threshold: nothing was delivered and the oldest frame was
\* dropped.
C26_Witness ==
    /\ backend = "alsa"
    /\ last.op = "output"
    /\ last.result = "Ok"
    /\ last.writes = 1
    /\ last.submitted = 0
    /\ QueueFrames > 0
    /\ QueueFrames < Threshold

=============================================================================
